---- MODULE Spec2Model ----
(***************************************************************************)
(* Model of homework_01/report_preparing.py: selection of the latest log   *)
(* file, the row-by-row aggregation, the preparation of the report rows,   *)
(* and the run prepare_report_based_on_latest_log_file with the marker     *)
(* file last.parsed.                                                       *)
(*                                                                         *)
(* Strings are sequences of character codes, so that Python's string       *)
(* comparison, str.split and re.match are computed and not assumed.        *)
(* Durations are floats: a float is modelled as an integer with MantBits   *)
(* significant bits, and every float addition rounds to the nearest such   *)
(* value (ties to even), as IEEE-754 addition does with 53 bits.           *)
(***************************************************************************)
EXTENDS Integers, Sequences, FiniteSets, TLC

VARIABLES
    dirOk,          \* os.path.exists(LOG_DIR) and os.path.isdir(LOG_DIR)
    listing,        \* os.listdir(LOG_DIR), in the order the OS returns it
    content,        \* file name -> the bytes of that file
    namePattern,    \* config["LOG_FILE_NAME_PATTERN"]
    threshold,      \* int(config["PARSE_ERROR_THRESHOLD_PERCENT"])
    report_size,    \* config["REPORT_SIZE"]
    renderOk,       \* the template can be read and the report file written
    marker,         \* content of REPORT_DIR/last.parsed, NoneVal when absent
    reports,        \* the report files of REPORT_DIR, by the log_date in their name
    pc,             \* position of the run (or of the call)
    log_file_info,  \* result of _get_latest_log_info
    log,            \* the rows the generator of _read_log_file has still to yield
    result,         \* the ParsingResult
    stats_map,      \* local of _parse_log_file
    report_data,    \* result of _prepare_report_data
    outcome,        \* how the run ended
    consumed,       \* history: the rows the aggregation pass has taken so far
    wroteReport,    \* history: this run wrote a report file
    wroteMarker,    \* history: this run wrote last.parsed
    markerAtStart,  \* history: last.parsed when this run started
    readFailedAt,   \* history: rows yielded before the reader failed, -1 if it did not
    prevOutcome     \* history: outcome of the run before, "none" if there was none
                    \* or the environment was changed since

vars == <<dirOk, listing, content, namePattern, threshold, report_size, renderOk,
          marker, reports, pc, log_file_info, log, result, stats_map, report_data,
          outcome, consumed, wroteReport, wroteMarker, markerAtStart, readFailedAt,
          prevOutcome>>

envVars == <<dirOk, listing, content, namePattern, threshold, report_size, renderOk>>
passVars == <<log, result, stats_map, consumed>>

\* Python's None, where the other values are records
NoneVal == [none |-> TRUE]

----------------------------------------------------------------------------
(* Bounds of the model. *)

\* longest directory listing drawn for a call of _get_latest_log_info
MaxList == 3
\* longest row sequence drawn for a call of _parse_log_file
MaxRows == 3
\* significant bits of a modelled float (53 in CPython)
MantBits == 3

----------------------------------------------------------------------------
(* Strings. *)

\* character codes (ASCII); any is the regular expression atom "." of a name
\* pattern, which stands for every character
Ch == [dash |-> 45, dot |-> 46, d0 |-> 48, d1 |-> 49, d2 |-> 50, d3 |-> 51,
       d4 |-> 52, d8 |-> 56, d9 |-> 57, a |-> 97, b |-> 98, g |-> 103, l |-> 108,
       o |-> 111, x |-> 120, z |-> 122, any |-> 0]

IsDigit(c) == c >= 48 /\ c <= 57

\* Python: a < b on str (code point order, a proper prefix is smaller)
RECURSIVE StrLess(_, _)
StrLess(a, b) ==
    IF b = <<>> THEN FALSE
    ELSE IF a = <<>> THEN TRUE
    ELSE IF Head(a) # Head(b) THEN Head(a) < Head(b)
    ELSE StrLess(Tail(a), Tail(b))

\* Python: a > b on str
StrGreater(a, b) == StrLess(b, a)

\* Python: s.split(".")
RECURSIVE SplitFrom(_, _, _)
SplitFrom(s, i, cur) ==
    IF i > Len(s) THEN <<cur>>
    ELSE IF s[i] = Ch.dot THEN <<cur>> \o SplitFrom(s, i + 1, <<>>)
    ELSE SplitFrom(s, i + 1, Append(cur, s[i]))

Split(s) == SplitFrom(s, 1, <<>>)

\* Python: s[4:]
From4(s) == IF Len(s) <= 4 THEN <<>> ELSE SubSeq(s, 5, Len(s))

\* re.match(pattern, filename): the pattern matches a prefix of the filename;
\* pattern atoms are literal characters or Ch.any
ReMatch(pattern, filename) ==
    /\ Len(pattern) <= Len(filename)
    /\ \A i \in 1..Len(pattern) : pattern[i] = Ch.any \/ pattern[i] = filename[i]

----------------------------------------------------------------------------
(* The file names and name patterns the model draws from. *)

NameLog0104 == <<Ch.x, Ch.dot, Ch.l, Ch.o, Ch.g, Ch.dash, Ch.d2, Ch.d0, Ch.d2, Ch.d4, Ch.d0, Ch.d1, Ch.d0, Ch.d4>>
NameLog0904gz == <<Ch.x, Ch.dot, Ch.l, Ch.o, Ch.g, Ch.dash, Ch.d2, Ch.d0, Ch.d2, Ch.d4, Ch.d0, Ch.d9, Ch.d0, Ch.d4, Ch.dot, Ch.g, Ch.z>>
NameLog0804 == <<Ch.x, Ch.dot, Ch.l, Ch.o, Ch.g, Ch.dash, Ch.d2, Ch.d0, Ch.d2, Ch.d4, Ch.d0, Ch.d8, Ch.d0, Ch.d4>>
\* month 13: matches the pattern, its date token does not parse
NameLog1304 == <<Ch.x, Ch.dot, Ch.l, Ch.o, Ch.g, Ch.dash, Ch.d2, Ch.d0, Ch.d2, Ch.d4, Ch.d1, Ch.d3, Ch.d0, Ch.d4>>
\* no "." at all: matches "x.log" (the atom "." takes "-"), split gives one part
NameNoDot == <<Ch.x, Ch.dash, Ch.l, Ch.o, Ch.g>>
\* matches no pattern of the model, greater than every name above
NameOther == <<Ch.z, Ch.dot, Ch.g, Ch.z>>

FileNames == {NameLog0104, NameLog0904gz, NameLog0804, NameLog1304, NameNoDot, NameOther}

\* "x.log" as in tests/test_base.py ("test.log"), and a pattern of a later date only
PatternXLog == <<Ch.x, Ch.any, Ch.l, Ch.o, Ch.g>>
PatternXLog09 == <<Ch.x, Ch.any, Ch.l, Ch.o, Ch.g, Ch.dash, Ch.d2, Ch.d0, Ch.d2, Ch.d4, Ch.d0, Ch.d9>>
NamePatterns == {PatternXLog, PatternXLog09}

\* the sequences of distinct elements of S of length at most n
DistinctSeqs(S, n) ==
    UNION {{s \in [1..k -> S] : \A i, j \in 1..k : i # j => s[i] # s[j]} : k \in 0..n}

----------------------------------------------------------------------------
(* _calculate_hash and _get_latest_log_info. *)

\* hashlib.md5 over the bytes of the file, taken as collision free: the digest
\* is identified with the bytes digested
calculate_hash(bytes) == [md5 |-> bytes]

\* the digits of s as a number
RECURSIVE DigitsValue(_)
DigitsValue(s) ==
    IF s = <<>> THEN 0 ELSE 10 * DigitsValue(SubSeq(s, 1, Len(s) - 1)) + (s[Len(s)] - 48)

DaysInMonth(y, m) ==
    IF m = 2 THEN (IF (y % 4 = 0 /\ y % 100 # 0) \/ y % 400 = 0 THEN 29 ELSE 28)
    ELSE IF m \in {4, 6, 9, 11} THEN 30 ELSE 31

\* datetime.strptime(token, "%Y%m%d").date() for a token of eight characters
\* (every token the names of FileNames give has eight): NoneVal stands for
\* the ValueError
Strptime(token) ==
    IF Len(token) # 8 \/ \E i \in 1..Len(token) : ~IsDigit(token[i]) THEN NoneVal
    ELSE LET y == DigitsValue(SubSeq(token, 1, 4))
             m == DigitsValue(SubSeq(token, 5, 6))
             d == DigitsValue(SubSeq(token, 7, 8))
         IN  IF y >= 1 /\ m >= 1 /\ m <= 12 /\ d >= 1 /\ d <= DaysInMonth(y, m)
             THEN [year |-> y, month |-> m, day |-> d]
             ELSE NoneVal

\* a plausible slip: no comparison, the last match listed wins
NewerLastListed(filename, found_file) == TRUE

\* line 72: found_file is None or filename > found_file
\* (found_file is <<>> for None and <<name>> for a name)
Newer(filename, found_file) ==
    found_file = <<>> \/ StrGreater(filename, found_file[1])

\* lines 69-73: the loop over os.listdir, from entry i on
RECURSIVE FoundFile(_, _, _, _)
FoundFile(names, pattern, i, found_file) ==
    IF i > Len(names) THEN found_file
    ELSE FoundFile(names, pattern, i + 1,
                   IF ReMatch(pattern, names[i]) /\ Newer(names[i], found_file)
                   THEN <<names[i]>> ELSE found_file)

\* _get_latest_log_info: NoneVal, a LogInfo, or [raised |-> exception].
\* full_path is the directory joined with filename and is left out.
get_latest_log_info(exists, names, pattern, bytesOf) ==
    IF ~exists THEN NoneVal
    ELSE LET found == FoundFile(names, pattern, 1, <<>>)
         IN  IF found = <<>> THEN NoneVal
             ELSE LET found_file == found[1]
                      file_parts == Split(found_file)
                  IN  IF Len(file_parts) < 2 THEN [raised |-> "IndexError"]
                      ELSE LET date == Strptime(From4(file_parts[2]))
                           IN  IF date = NoneVal THEN [raised |-> "ValueError"]
                               ELSE [filename |-> found_file,
                                     log_date |-> date,
                                     hash |-> calculate_hash(bytesOf[found_file]),
                                     is_gzipped |-> file_parts[Len(file_parts)] = <<Ch.g, Ch.z>>]

IsLogInfo(v) == "filename" \in DOMAIN v
IsRaised(v) == "raised" \in DOMAIN v

----------------------------------------------------------------------------
(* Floats. *)

Pow2(n) == 2 ^ n
Abs(v) == IF v < 0 THEN 0 - v ELSE v

\* the least e with |v| < 2^(MantBits + e)
RECURSIVE ExpOf(_, _)
ExpOf(v, e) == IF Abs(v) < Pow2(MantBits + e) THEN e ELSE ExpOf(v, e + 1)

\* the float nearest to the real number v, ties to the even mantissa
FRound(v) ==
    LET e == ExpOf(v, 0)
        unit == Pow2(e)
        q == Abs(v) \div unit
        r == Abs(v) % unit
        up == IF 2 * r > unit \/ (2 * r = unit /\ q % 2 = 1) THEN 1 ELSE 0
        mag == (q + up) * unit
    IN  IF v < 0 THEN 0 - mag ELSE mag

\* a + b on floats
FAdd(a, b) == FRound(a + b)

\* the least float that float addition can no longer step over by one
BigTime == Pow2(MantBits)

\* str(n) for n >= 0
RECURSIVE Str(_)
Str(n) == IF n < 10 THEN <<48 + n>> ELSE Str(n \div 10) \o <<48 + (n % 10)>>

\* float(text) for the texts "d...d" and "-d...d": [value |-> the float], or
\* [raised |-> "ValueError"] for a text that is no number
Float(text) ==
    LET neg == text # <<>> /\ text[1] = Ch.dash
        digits == IF neg THEN Tail(text) ELSE text
    IN  IF digits = <<>> \/ \E i \in 1..Len(digits) : ~IsDigit(digits[i])
        THEN [raised |-> "ValueError"]
        ELSE [value |-> FRound(IF neg THEN 0 - DigitsValue(digits) ELSE DigitsValue(digits))]

----------------------------------------------------------------------------
(* _read_log_file. *)

\* A file is [rows, failAt]: rows are its lines as row_pattern takes them, each
\* [matched |-> FALSE] (the code yields False) or [matched |-> TRUE,
\* request_path, request_time] (the groupdict); failAt is the number of lines
\* read before a UnicodeDecodeError or OSError, -1 when the file reads to its end.

\* lines 111-126: the rows yielded; the except clauses end the generator
read_log_file(bytes) ==
    IF bytes.failAt >= 0 THEN SubSeq(bytes.rows, 1, bytes.failAt) ELSE bytes.rows

----------------------------------------------------------------------------
(* _parse_log_file. *)

\* line 139: ParsingResult()
NewParsingResult ==
    [row_process_error_cnt |-> 0, req_total_count |-> 0, req_total_time |-> 0,
     stats |-> <<>>]

\* lines 158-164: the default of setdefault
NewStat(request_path) ==
    [path |-> request_path, time_sum |-> 0, request_times |-> <<>>, count |-> 0,
     time_max |-> 0]

\* a plausible slip: the request is not counted
UpdateStatNoCount(stat, request_time) ==
    [stat EXCEPT !.time_sum = FAdd(@, request_time),
                 !.request_times = Append(@, request_time),
                 !.time_max = IF @ < request_time THEN request_time ELSE @]

\* lines 167-171
UpdateStat(stat, request_time) ==
    [stat EXCEPT !.time_sum = FAdd(@, request_time),
                 !.request_times = Append(@, request_time),
                 !.time_max = IF @ < request_time THEN request_time ELSE @,
                 !.count = @ + 1]

\* stats_map is a dict, kept as the sequence of its values in insertion order
PathIndex(smap, request_path) ==
    IF \E i \in 1..Len(smap) : smap[i].path = request_path
    THEN CHOOSE i \in 1..Len(smap) : smap[i].path = request_path
    ELSE 0

\* lines 156-171: setdefault, then the update of the entry
Aggregate(smap, request_path, request_time) ==
    LET i == PathIndex(smap, request_path)
    IN  IF i = 0 THEN Append(smap, UpdateStat(NewStat(request_path), request_time))
        ELSE [smap EXCEPT ![i] = UpdateStat(@, request_time)]

\* lines 143-171: one turn of the loop; raised is the exception that ends it
ParseRow(res, smap, row) ==
    LET counted == [res EXCEPT !.req_total_count = @ + 1]
    IN  IF ~row.matched
        THEN [result |-> [counted EXCEPT !.row_process_error_cnt = @ + 1],
              stats_map |-> smap, raised |-> "no"]
        ELSE LET request_time == Float(row.request_time)
             IN  IF IsRaised(request_time)
                 THEN [result |-> counted, stats_map |-> smap,
                       raised |-> request_time.raised]
                 ELSE [result |-> [counted EXCEPT !.req_total_time =
                                       FAdd(@, request_time.value)],
                       stats_map |-> Aggregate(smap, row.request_path,
                                               request_time.value),
                       raised |-> "no"]

\* insertion of x behind every element whose time_max is not smaller
RECURSIVE InsertDesc(_, _)
InsertDesc(sorted, x) ==
    IF sorted = <<>> THEN <<x>>
    ELSE IF Head(sorted).time_max >= x.time_max
         THEN <<Head(sorted)>> \o InsertDesc(Tail(sorted), x)
         ELSE <<x>> \o sorted

\* line 180: sorted(values, key=time_max, reverse=True), a stable sort
RECURSIVE SortedByTimeMax(_)
SortedByTimeMax(values) ==
    IF values = <<>> THEN <<>>
    ELSE InsertDesc(SortedByTimeMax(SubSeq(values, 1, Len(values) - 1)),
                    values[Len(values)])

\* lines 177-182: the result returned after the loop
Finished(res, smap) ==
    IF smap = <<>> THEN res ELSE [res EXCEPT !.stats = SortedByTimeMax(smap)]

----------------------------------------------------------------------------
(* ParsingResult's properties and _prepare_report_data. *)

\* lines 34-36
has_data_to_render(parsed_log) == Len(parsed_log.stats) > 0

\* lines 197-199, with error_percent of lines 30-32 taken as the exact quotient:
\* threshold <= row_process_error_cnt / req_total_count * 100
TooManyErrors(parsed_log, parse_error_threshold_percent) ==
    /\ parsed_log.req_total_count > 0
    /\ 0 < parse_error_threshold_percent
    /\ parse_error_threshold_percent * parsed_log.req_total_count
           <= parsed_log.row_process_error_cnt * 100

\* Python: s[:n]
Slice(s, n) ==
    IF n >= 0 THEN SubSeq(s, 1, IF n < Len(s) THEN n ELSE Len(s))
    ELSE SubSeq(s, 1, IF Len(s) + n > 0 THEN Len(s) + n ELSE 0)

\* _prepare_report_data: [rows |-> the report rows] or [raised |-> exception].
\* The divisions by req_total_count (line 208) and req_total_time (line 211)
\* raise ZeroDivisionError; row["count"] (line 212) is never 0. Of a report row
\* the model keeps url, count, time_sum and time_max; the rounded ratios and the
\* median are left out.
prepare_report_data(parsed_log, size, parse_error_threshold_percent) ==
    IF TooManyErrors(parsed_log, parse_error_threshold_percent)
    THEN [raised |-> "ValueError"]
    ELSE LET kept == Slice(parsed_log.stats, size)
         IN  IF kept # <<>> /\ (parsed_log.req_total_count = 0
                                \/ parsed_log.req_total_time = 0)
             THEN [raised |-> "ZeroDivisionError"]
             ELSE [rows |-> [i \in 1..Len(kept) |->
                                [url |-> kept[i].path,
                                 count |-> kept[i].count,
                                 time_sum |-> kept[i].time_sum,
                                 time_max |-> kept[i].time_max]]]

----------------------------------------------------------------------------
(* _render_report, _get_latest_parsed_file_hash, _save_latest_parsed_file_hash. *)

\* lines 219-238: the report file named after log_date is (over)written; the
\* files are kept by name
render_report(files, info) == files \cup {info.log_date}

\* a plausible slip: the gate compares nothing
AlreadyParsedNever(last_parsed_file_hash, info) == FALSE

\* line 291: last_parsed_file_hash and last_parsed_file_hash == log_file_info.hash
\* (a digest is never the empty string, so only None is falsy)
AlreadyParsed(last_parsed_file_hash, info) ==
    last_parsed_file_hash # NoneVal /\ last_parsed_file_hash = info.hash

\* lines 262-263: the new content of last.parsed
save_latest_parsed_file_hash(info) == info.hash

\* a plausible slip: the marker is written on the early return of line 303 too
MarkerAfterNoDataSaved(old, info) == save_latest_parsed_file_hash(info)

\* lines 301-303: last.parsed after the return "Parsed log file has no data!"
MarkerAfterNoData(old, info) == old

----------------------------------------------------------------------------
(* The inputs the model draws from. *)

Paths == {"/a", "/b"}

\* the duration texts: negative, zero, small, BigTime, and one that is no number
TimeTexts == {<<Ch.dash, Ch.d1>>, <<Ch.d0>>, <<Ch.d1>>, Str(BigTime), <<Ch.x>>}

Matched(p, t) == [matched |-> TRUE, request_path |-> p, request_time |-> t]
Unmatched == [matched |-> FALSE]

Rows == {Unmatched} \cup {Matched(p, t) : p \in Paths, t \in TimeTexts}

RowSeqs == UNION {[1..k -> Rows] : k \in 0..MaxRows}

Thresholds == {-1, 0, 50}
ReportSizes == {0, 1, 2}

File(rows, failAt) == [rows |-> rows, failAt |-> failAt]
EmptyFile == File(<<>>, -1)

\* the files dropped into LOG_DIR in the runs
LogFiles ==
    { EmptyFile,
      File(<<Unmatched>>, -1),
      File(<<Matched("/a", <<Ch.d1>>), Matched("/b", <<Ch.d2>>)>>, -1),
      File(<<Matched("/a", <<Ch.d1>>), Unmatched>>, -1),
      File(<<Matched("/a", <<Ch.d0>>)>>, -1),
      File(<<Matched("/a", <<Ch.d1>>), Matched("/b", <<Ch.d2>>)>>, 1),
      File(<<Matched("/a", <<Ch.x>>)>>, -1) }

LogDrops ==
    ({NameLog0104, NameLog0904gz} \X LogFiles) \cup {<<NameLog1304, EmptyFile>>}

RunThresholds == {-1, 50}
RunReportSizes == {1, 2}

----------------------------------------------------------------------------
(* The state before a run or a call. *)

Idle ==
    /\ pc = "idle"
    /\ log_file_info = NoneVal
    /\ log = <<>>
    /\ result = NewParsingResult
    /\ stats_map = <<>>
    /\ report_data = <<>>
    /\ outcome = "running"
    /\ consumed = <<>>
    /\ wroteReport = FALSE
    /\ wroteMarker = FALSE
    /\ markerAtStart = NoneVal
    /\ readFailedAt = -1
    /\ prevOutcome = "none"
    /\ marker = NoneVal
    /\ reports = {}

\* before the first run: no log directory yet, the default configuration shape
Init ==
    /\ Idle
    /\ dirOk = FALSE
    /\ listing = <<>>
    /\ content = [n \in FileNames |-> EmptyFile]
    /\ namePattern = PatternXLog
    /\ threshold \in RunThresholds
    /\ report_size \in RunReportSizes
    /\ renderOk = TRUE

----------------------------------------------------------------------------
(* The environment between two runs. *)

\* a log file is written into LOG_DIR (a new name is listed last)
PutLog(name, bytes) ==
    /\ pc = "idle"
    /\ content[name] # bytes \/ \A i \in 1..Len(listing) : listing[i] # name
    /\ dirOk' = TRUE
    /\ listing' = IF \E i \in 1..Len(listing) : listing[i] = name
                  THEN listing ELSE Append(listing, name)
    /\ content' = [content EXCEPT ![name] = bytes]
    /\ prevOutcome' = "none"
    /\ UNCHANGED <<namePattern, threshold, report_size, renderOk, marker, reports,
                   pc, log_file_info, report_data, outcome, wroteReport,
                   wroteMarker, markerAtStart, readFailedAt, passVars>>

\* the configuration is edited
SetConfig(thr, size) ==
    /\ pc = "idle"
    /\ <<thr, size>> # <<threshold, report_size>>
    /\ threshold' = thr
    /\ report_size' = size
    /\ prevOutcome' = "none"
    /\ UNCHANGED <<dirOk, listing, content, namePattern, renderOk, marker, reports,
                   pc, log_file_info, report_data, outcome, wroteReport,
                   wroteMarker, markerAtStart, readFailedAt, passVars>>

\* the template or REPORT_DIR becomes unusable, or usable again
SetRender ==
    /\ pc = "idle"
    /\ renderOk' = ~renderOk
    /\ prevOutcome' = "none"
    /\ UNCHANGED <<dirOk, listing, content, namePattern, threshold, report_size,
                   marker, reports, pc, log_file_info, report_data, outcome,
                   wroteReport, wroteMarker, markerAtStart, readFailedAt, passVars>>

----------------------------------------------------------------------------
(* prepare_report_based_on_latest_log_file, step by step. *)

\* the run ends: by a return, or by an exception that leaves the function
End(how) ==
    /\ pc' = "done"
    /\ outcome' = how

\* lines 275-282
Select ==
    /\ pc = "idle"
    /\ log_file_info' = get_latest_log_info(dirOk, listing, namePattern, content)
    /\ markerAtStart' = marker
    /\ IF log_file_info' = NoneVal THEN End("no log file")
       ELSE IF IsRaised(log_file_info') THEN End(log_file_info'.raised)
       ELSE pc' = "gate" /\ outcome' = outcome
    /\ UNCHANGED <<envVars, marker, reports, report_data, wroteReport, wroteMarker,
                   readFailedAt, prevOutcome, passVars>>

\* lines 284-293
Gate ==
    /\ pc = "gate"
    /\ IF AlreadyParsed(marker, log_file_info) THEN End("already parsed")
       ELSE pc' = "read" /\ outcome' = outcome
    /\ UNCHANGED <<envVars, marker, reports, log_file_info, report_data,
                   wroteReport, wroteMarker, markerAtStart, readFailedAt,
                   prevOutcome, passVars>>

\* lines 295-299: the generator is made and _parse_log_file entered
ReadLog ==
    /\ pc = "read"
    /\ log' = read_log_file(content[log_file_info.filename])
    /\ readFailedAt' = content[log_file_info.filename].failAt
    /\ result' = NewParsingResult
    /\ stats_map' = <<>>
    /\ consumed' = <<>>
    /\ pc' = "parsing"
    /\ UNCHANGED <<envVars, marker, reports, log_file_info, report_data, outcome,
                   wroteReport, wroteMarker, markerAtStart, prevOutcome>>

\* lines 142-171: one row of the pass
LogRow ==
    /\ pc = "parsing"
    /\ log # <<>>
    /\ LET step == ParseRow(result, stats_map, Head(log))
       IN  /\ result' = step.result
           /\ stats_map' = step.stats_map
           /\ IF step.raised = "no" THEN pc' = pc /\ outcome' = outcome
              ELSE End(step.raised)
    /\ log' = Tail(log)
    /\ consumed' = Append(consumed, Head(log))
    /\ UNCHANGED <<envVars, marker, reports, log_file_info, report_data,
                   wroteReport, wroteMarker, markerAtStart, readFailedAt,
                   prevOutcome>>

\* lines 173-182: the generator is exhausted
LogEnd ==
    /\ pc = "parsing"
    /\ log = <<>>
    /\ result' = Finished(result, stats_map)
    /\ pc' = "parsed"
    /\ UNCHANGED <<envVars, marker, reports, log_file_info, log, stats_map,
                   consumed, report_data, outcome, wroteReport, wroteMarker,
                   markerAtStart, readFailedAt, prevOutcome>>

\* lines 301-303
HasData ==
    /\ pc = "parsed"
    /\ IF ~has_data_to_render(result)
       THEN End("no data") /\ marker' = MarkerAfterNoData(marker, log_file_info)
       ELSE pc' = "prepare" /\ outcome' = outcome /\ marker' = marker
    /\ UNCHANGED <<envVars, reports, log_file_info, report_data, wroteReport,
                   wroteMarker, markerAtStart, readFailedAt, prevOutcome, passVars>>

\* lines 305-315
Prepare ==
    /\ pc = "prepare"
    /\ LET data == prepare_report_data(result, report_size, threshold)
       IN  IF IsRaised(data)
           THEN End(data.raised) /\ report_data' = report_data
           ELSE IF ~has_data_to_render(result)
                THEN End("no data") /\ report_data' = data.rows
                ELSE pc' = "render" /\ outcome' = outcome /\ report_data' = data.rows
    /\ UNCHANGED <<envVars, marker, reports, log_file_info, wroteReport,
                   wroteMarker, markerAtStart, readFailedAt, prevOutcome, passVars>>

\* line 317
Render ==
    /\ pc = "render"
    /\ IF renderOk
       THEN /\ reports' = render_report(reports, log_file_info)
            /\ wroteReport' = TRUE
            /\ pc' = "save"
            /\ outcome' = outcome
       ELSE /\ End("OSError")
            /\ UNCHANGED <<reports, wroteReport>>
    /\ UNCHANGED <<envVars, marker, log_file_info, report_data, wroteMarker,
                   markerAtStart, readFailedAt, prevOutcome, passVars>>

\* lines 319-321
SaveMarker ==
    /\ pc = "save"
    /\ marker' = save_latest_parsed_file_hash(log_file_info)
    /\ wroteMarker' = TRUE
    /\ End("report ready")
    /\ UNCHANGED <<envVars, reports, log_file_info, report_data, wroteReport,
                   markerAtStart, readFailedAt, prevOutcome, passVars>>

\* the process has exited; the next run starts from scratch
Exit ==
    /\ pc = "done"
    /\ pc' = "idle"
    /\ prevOutcome' = outcome
    /\ log_file_info' = NoneVal
    /\ log' = <<>>
    /\ result' = NewParsingResult
    /\ stats_map' = <<>>
    /\ report_data' = <<>>
    /\ outcome' = "running"
    /\ consumed' = <<>>
    /\ wroteReport' = FALSE
    /\ wroteMarker' = FALSE
    /\ markerAtStart' = NoneVal
    /\ readFailedAt' = -1
    /\ UNCHANGED <<envVars, marker, reports>>

Next ==
    \/ \E d \in LogDrops : PutLog(d[1], d[2])
    \/ \E thr \in RunThresholds, size \in RunReportSizes : SetConfig(thr, size)
    \/ SetRender
    \/ Select
    \/ Gate
    \/ ReadLog
    \/ LogRow
    \/ LogEnd
    \/ HasData
    \/ Prepare
    \/ Render
    \/ SaveMarker
    \/ Exit

Spec == Init /\ [][Next]_vars

----------------------------------------------------------------------------
(* A call of _get_latest_log_info on any directory. *)

InitSelect ==
    /\ Idle
    /\ dirOk \in BOOLEAN
    /\ listing \in DistinctSeqs(FileNames, MaxList)
    /\ content = [n \in FileNames |-> EmptyFile]
    /\ namePattern \in NamePatterns
    /\ threshold = -1
    /\ report_size = 1
    /\ renderOk = TRUE

CallSelect ==
    /\ pc = "idle"
    /\ log_file_info' = get_latest_log_info(dirOk, listing, namePattern, content)
    /\ pc' = "called"
    /\ UNCHANGED <<envVars, marker, reports, report_data, outcome, wroteReport,
                   wroteMarker, markerAtStart, readFailedAt, prevOutcome, passVars>>

NextSelect == CallSelect

SpecSelect == InitSelect /\ [][NextSelect]_vars

----------------------------------------------------------------------------
(* A call of _parse_log_file on any row sequence, then of _prepare_report_data
   on its result. *)

InitParse ==
    /\ pc = "parsing"
    /\ log \in RowSeqs
    /\ log_file_info = NoneVal
    /\ result = NewParsingResult
    /\ stats_map = <<>>
    /\ report_data = <<>>
    /\ outcome = "running"
    /\ consumed = <<>>
    /\ wroteReport = FALSE
    /\ wroteMarker = FALSE
    /\ markerAtStart = NoneVal
    /\ readFailedAt = -1
    /\ prevOutcome = "none"
    /\ marker = NoneVal
    /\ reports = {}
    /\ dirOk = FALSE
    /\ listing = <<>>
    /\ content = [n \in FileNames |-> EmptyFile]
    /\ namePattern = PatternXLog
    /\ threshold = -1
    /\ report_size = 1
    /\ renderOk = TRUE

CallPrepare(size, thr) ==
    /\ pc = "parsed"
    /\ report_size' = size
    /\ threshold' = thr
    /\ LET data == prepare_report_data(result, size, thr)
       IN  IF IsRaised(data)
           THEN outcome' = data.raised /\ report_data' = report_data
           ELSE outcome' = "returned" /\ report_data' = data.rows
    /\ pc' = "called"
    /\ UNCHANGED <<dirOk, listing, content, namePattern, renderOk, marker, reports,
                   log_file_info, wroteReport, wroteMarker, markerAtStart,
                   readFailedAt, prevOutcome, passVars>>

NextParse ==
    \/ LogRow
    \/ LogEnd
    \/ \E size \in ReportSizes, thr \in Thresholds : CallPrepare(size, thr)

SpecParse == InitParse /\ [][NextParse]_vars

----------------------------------------------------------------------------
(* Notions the properties are stated in. *)

Raised == {"ValueError", "ZeroDivisionError", "IndexError", "OSError"}

Min(a, b) == IF a < b THEN a ELSE b

\* the listed names the pattern matches
Matching == {listing[i] : i \in {j \in 1..Len(listing) : ReMatch(namePattern, listing[j])}}

\* the name ends in ".gz", or is "gz"
EndsInGz(name) ==
    /\ Len(name) >= 2
    /\ name[Len(name) - 1] = Ch.g
    /\ name[Len(name)] = Ch.z
    /\ Len(name) > 2 => name[Len(name) - 2] = Ch.dot

\* the floats of the matched rows of rs whose path is in ps, in row order
RECURSIVE Durations(_, _)
Durations(rs, ps) ==
    IF rs = <<>> THEN <<>>
    ELSE LET rest == Durations(SubSeq(rs, 1, Len(rs) - 1), ps)
             row == rs[Len(rs)]
         IN  IF row.matched /\ row.request_path \in ps
             THEN Append(rest, Float(row.request_time).value)
             ELSE rest

\* the sum of the floats of ts, added in order with float addition
RECURSIVE FSum(_)
FSum(ts) == IF ts = <<>> THEN 0 ELSE FAdd(FSum(SubSeq(ts, 1, Len(ts) - 1)), ts[Len(ts)])

\* the sum of |t| over ts, in the integers
RECURSIVE AbsSum(_)
AbsSum(ts) == IF ts = <<>> THEN 0 ELSE AbsSum(Tail(ts)) + Abs(Head(ts))

\* the greatest element of a non-empty sequence of floats
SeqMax(ts) == CHOOSE m \in {ts[i] : i \in 1..Len(ts)} : \A i \in 1..Len(ts) : ts[i] <= m

\* the float sum of time_sum over the endpoints, in dict order
RECURSIVE TimeSums(_)
TimeSums(smap) ==
    IF smap = <<>> THEN 0
    ELSE FAdd(TimeSums(SubSeq(smap, 1, Len(smap) - 1)), smap[Len(smap)].time_sum)

RECURSIVE Counts(_)
Counts(smap) == IF smap = <<>> THEN 0 ELSE Counts(Tail(smap)) + Head(smap).count

Unmatcheds(rs) == Cardinality({i \in 1..Len(rs) : ~rs[i].matched})

\* the threshold check as the specification words it
Breach ==
    /\ result.req_total_count > 0
    /\ threshold > 0
    /\ result.row_process_error_cnt * 100 >= threshold * result.req_total_count

----------------------------------------------------------------------------
(* Properties of the run. *)

\* C1: a run that follows a run with nothing changed in between writes neither a
\* report nor last.parsed; if the run before wrote its report, this run ends at
\* the gate "already parsed".
C1_SecondRunWritesNothing ==
    (pc = "done" /\ prevOutcome # "none") =>
        /\ ~wroteReport
        /\ ~wroteMarker
        /\ marker = markerAtStart
        /\ prevOutcome = "report ready" => outcome = "already parsed"

C1_Witness ==
    pc = "done" /\ prevOutcome = "report ready" /\ outcome = "already parsed"

\* C2: a run that read a new file with totalRequests > 0 under a positive
\* threshold that the error rate reaches ends in an exception and writes
\* neither a report nor last.parsed.
C2_BreachAlwaysRaises ==
    (pc = "done" /\ consumed # <<>> /\ Breach) =>
        outcome \in Raised /\ ~wroteReport /\ ~wroteMarker

\* C3: a run whose reader failed after at least one row ends in an exception,
\* writes no report from the rows read before and leaves last.parsed alone.
C3_ReaderFailureIsHard ==
    (pc = "done" /\ readFailedAt >= 1) =>
        outcome \in Raised /\ ~wroteReport /\ ~wroteMarker

\* C4: a run that read its file to the end and got no endpoint ends cleanly with
\* no report, and last.parsed holds that file's fingerprint.
C4_NoDataUpdatesMarker ==
    (pc = "done" /\ outcome = "no data" /\ readFailedAt = -1) =>
        ~wroteReport /\ marker = log_file_info.hash

\* C5: last.parsed changes only in the last step of a run that has written its
\* report, to the fingerprint of the file that run selected; a run that ends in
\* any other way ends with last.parsed as it found it.
C5_MarkerOnlyAfterReport ==
    [][ /\ marker' # marker =>
              /\ pc = "save" /\ pc' = "done" /\ outcome' = "report ready"
              /\ wroteReport
              /\ IsLogInfo(log_file_info)
              /\ marker' = log_file_info.hash
        /\ (pc' = "done" /\ outcome' # "report ready") => marker' = markerAtStart'
      ]_vars

C5_Witness ==
    /\ pc = "done" /\ outcome = "report ready"
    /\ wroteReport /\ wroteMarker
    /\ markerAtStart # NoneVal
    /\ marker # markerAtStart
    /\ marker = log_file_info.hash

----------------------------------------------------------------------------
(* Properties of _get_latest_log_info. *)

\* C6: the call gives None exactly when the directory is missing or no listed
\* name matches the pattern; a LogInfo it returns names the greatest matching
\* name in string order, wherever the listing has it, and is_gzipped says whether
\* that name's last dot-separated part is "gz".
C6_LatestIsGreatestMatch ==
    pc = "called" =>
        /\ log_file_info = NoneVal <=> (~dirOk \/ Matching = {})
        /\ IsLogInfo(log_file_info) =>
              /\ log_file_info.filename \in Matching
              /\ \A n \in Matching : ~StrLess(log_file_info.filename, n)
              /\ log_file_info.is_gzipped <=> EndsInGz(log_file_info.filename)

C6_Witness ==
    /\ pc = "called"
    /\ IsLogInfo(log_file_info)
    /\ Cardinality(Matching) >= 2
    /\ Len(listing) = 3
    /\ listing[1] = log_file_info.filename
    /\ log_file_info.is_gzipped
    /\ \E i \in 1..Len(listing) : listing[i] \notin Matching

----------------------------------------------------------------------------
(* Properties of _parse_log_file and _prepare_report_data. *)

\* C7: the call raises exactly when totalRequests > 0, the threshold is positive
\* and the error rate reaches it; otherwise it returns one row for each of the
\* first report_size endpoints.
C7_RaisesExactlyOnBreach ==
    pc = "called" =>
        /\ outcome \in Raised <=> Breach
        /\ outcome = "returned" => Len(report_data) = Len(Slice(result.stats, report_size))

\* C8: when the pass is over, every endpoint's time_max is the greatest of its
\* request_times.
C8_TimeMaxIsMaximum ==
    pc = "parsed" =>
        \A i \in 1..Len(result.stats) :
            result.stats[i].time_max = SeqMax(result.stats[i].request_times)

\* the counters and the endpoints after the rows rs
Consistent(res, smap, rs) ==
    /\ res.req_total_count = Len(rs)
    /\ res.row_process_error_cnt = Unmatcheds(rs)
    /\ Counts(smap) = res.req_total_count - res.row_process_error_cnt
    /\ \A i \in 1..Len(smap) : smap[i].count = Len(smap[i].request_times)

\* a step that takes an unmatched row leaves the endpoints alone and the pass going
UnmatchedRowFrame ==
    (pc = "parsing" /\ log # <<>> /\ ~Head(log).matched) =>
        stats_map' = stats_map /\ pc' = "parsing"

\* C9 as stated: the counters are consistent after every step and req_total_time
\* is the sum of time_sum over the endpoints.
C9_TotalTimeIsSumOfTimeSums ==
    pc \in {"parsing", "parsed"} =>
        /\ Consistent(result, stats_map, consumed)
        /\ result.req_total_time = TimeSums(stats_map)

\* C9 as amended: after every step of the pass that does not raise, the counters
\* are consistent; req_total_time is the float sum, in row order, of the parsed
\* durations and each time_sum the float sum, in row order, of its endpoint's
\* durations; the two agree wherever no partial sum can have been rounded; an
\* unmatched row changes no endpoint and does not stop the pass.
C9_AggregationInvariants ==
    [][ /\ pc' \in {"parsing", "parsed"} =>
              /\ Consistent(result', stats_map', consumed')
              /\ result'.req_total_time = FSum(Durations(consumed', Paths))
              /\ \A i \in 1..Len(stats_map') :
                    /\ stats_map'[i].request_times =
                           Durations(consumed', {stats_map'[i].path})
                    /\ stats_map'[i].time_sum = FSum(stats_map'[i].request_times)
              /\ AbsSum(Durations(consumed', Paths)) < BigTime =>
                    result'.req_total_time = TimeSums(stats_map')
        /\ UnmatchedRowFrame
      ]_vars

C9_Witness ==
    /\ pc = "parsed"
    /\ Len(stats_map) = 2
    /\ Unmatcheds(consumed) >= 1
    /\ result.req_total_time # 0
    /\ result.req_total_time = TimeSums(stats_map)

\* C10: when the threshold check passes and report_size is positive, the report
\* has min(report_size, number of endpoints) rows, in non-increasing order of
\* time_max, and no endpoint left out has a greater time_max than one in it.
C10_ReportIsTopBySize ==
    (pc = "called" /\ report_size > 0 /\ ~Breach) =>
        /\ outcome = "returned"
        /\ Len(report_data) = Min(report_size, Len(stats_map))
        /\ \A i, j \in 1..Len(report_data) :
              i < j => report_data[i].time_max >= report_data[j].time_max
        /\ \A i \in 1..Len(report_data) : \A k \in 1..Len(stats_map) :
              (\A j \in 1..Len(report_data) : report_data[j].url # stats_map[k].path)
                  => stats_map[k].time_max <= report_data[i].time_max

====
